---- MODULE Spec2Model ----
(***************************************************************************)
(* Monitor state machine of lol-auto-accept (internal/app/app.go): the     *)
(* shared flags running / waitingForMatch / autoWatching, the control      *)
(* surface handlers that call StartMonitoring and StopMonitoring, the poll *)
(* loop goroutines spawned by StartMonitoring and the auto-watcher         *)
(* goroutine.  Every acquisition of App.mutex is one atomic step, so the   *)
(* interleavings of the goroutines are those the Go scheduler allows.      *)
(* Work that is local to a goroutine (waiting for the ticker, capturing a  *)
(* frame, running the detector on it, loading the templates) is folded     *)
(* into the step of the lock acquisition before it.  A click is a step of  *)
(* its own with a beginning and an end.  The poll loop goroutines and the  *)
(* handlers are anonymous, so the live ones are kept as bags.              *)
(***************************************************************************)
EXTENDS Integers, Sequences, FiniteSets, Bags, TLC

VARIABLES
    running,          \* App.running
    waitingForMatch,  \* App.waitingForMatch
    autoWatching,     \* App.autoWatching
    acceptTemplate,   \* ImageDetector.acceptTemplate  (TRUE = non-nil)
    matchingTemplate, \* ImageDetector.matchingTemplate (TRUE = non-nil)
    status,           \* the status UpdateStatus broadcast in the step just taken (none if none)
    logged,           \* the log line SendLog broadcast in the step just taken (none if none)
    watcher,          \* position of the auto-watcher (StartAutoWatcher and its goroutine)
    calls,            \* bag of the StartMonitoring / StopMonitoring calls in progress
    loops,            \* bag of the live poll loop goroutines
    stopReturned,     \* history: a StopMonitoring called in AwaitingAcceptButton has
                      \* returned and running has not been set since
    scripted,         \* the frame source replays a script (scenario runs)
    frames,           \* script: frames still to be fed
    fed,              \* script: frames fed so far
    events,           \* script: states observed after each fed frame, and clicks
    faulted,          \* script: a capture, click or template load has failed
    env,              \* what the frame source, template store or click controller
                      \* answered in the step just taken (none if it was not asked)
    detect,           \* a call of one detector function followed statement by
                      \* statement: its arguments, its locals, its position
    manager           \* websocket.Manager: its client set, and the BroadcastMessage
                      \* calls that hold clientsMutex for reading

vars == <<running, waitingForMatch, autoWatching, acceptTemplate, matchingTemplate,
          status, logged, watcher, calls, loops, stopReturned,
          scripted, frames, fed, events, faulted, env, detect, manager>>

\* everything but the detector call that is followed and the Manager
program == <<running, waitingForMatch, autoWatching, acceptTemplate, matchingTemplate,
             status, logged, watcher, calls, loops, stopReturned,
             scripted, frames, fed, events, faulted, env>>

----------------------------------------------------------------------------
(* Bounds *)

\* number of control-surface commands (websocket handlers) that may run at once
NumCtl == 1
\* number of poll-loop goroutines that may be alive at once
MaxLoops == 2
\* length of the frame scripts of the scenario runs
MaxScript == 5
\* number of websocket connections
MaxConns == 2
\* number of (threshold, scale) pairs FastDetectAcceptButton scans with
MaxScans == 3
\* width and height of the frames templateMatchFast is followed on
MaxSide == 5

----------------------------------------------------------------------------
(* Frames.  A captured frame is characterised by what the detector answers *)
(* on it; scores are in thousandths.                                       *)

Nil == [X |-> -1, Y |-> -1]

FrameTable ==
    << [match |-> FALSE, btn |-> FALSE, X |-> -1,  Y |-> -1,  score |-> 0],
       [match |-> TRUE,  btn |-> FALSE, X |-> -1,  Y |-> -1,  score |-> 0],
       [match |-> TRUE,  btn |-> TRUE,  X |-> 500, Y |-> 600, score |-> 900],
       [match |-> TRUE,  btn |-> TRUE,  X |-> 640, Y |-> 360, score |-> 200] >>

NoFrame == 0
Frames  == 1..Len(FrameTable)

\* the firing threshold 0.2 of the poll loop, in thousandths
FiringThreshold == 200

\* variant: the matching screen is reported on every frame
FastDetectAlways(f) == TRUE
FastDetectMatchingScreen(f) == FrameTable[f].match

\* variant: no button candidate is ever found
FastDetectNothing(f) == Nil
\* variant: the candidate is reported at the frame's origin
FastDetectOrigin(f) == IF FrameTable[f].btn THEN [X |-> 0, Y |-> 0] ELSE Nil
FastDetectAcceptButton(f) ==
    IF FrameTable[f].btn THEN [X |-> FrameTable[f].X, Y |-> FrameTable[f].Y] ELSE Nil

VerifyAcceptButton(f, pos) == FrameTable[f].score

\* variant: the firing test with >= in place of >
ShouldClickAtLeast(score) == score >= FiringThreshold
\* the poll loop's firing test on the verification score
ShouldClick(score) == score > FiringThreshold

----------------------------------------------------------------------------
(* Monitor state as read from the shared flags *)

MonitorState ==
    IF ~running THEN "Idle"
    ELSE IF waitingForMatch THEN "AwaitingMatchScreen" ELSE "AwaitingAcceptButton"

----------------------------------------------------------------------------
(* Poll loop goroutines *)

\* a poll loop: its position and its local buttonPos
Loop(p, b) == [pc |-> p, buttonPos |-> b]

At(p) == Loop(p, Nil)

Live == BagToSet(loops)

\* poll loop r moves on to r2
Move(r, r2) == loops' = (loops (-) SetToBag({r})) (+) SetToBag({r2})

\* poll loop r returns
Exit(r) == loops' = loops (-) SetToBag({r})

\* the number of live poll loops at one of the positions ps
CountAt(ps) ==
    LET S == {r \in Live : r.pc \in ps}
        Sum[T \in SUBSET S] ==
            IF T = {} THEN 0
            ELSE LET x == CHOOSE y \in T : TRUE IN loops[x] + Sum[T \ {x}]
    IN Sum[S]

----------------------------------------------------------------------------
(* Calls in progress.  A call of StartMonitoring or StopMonitoring made by a  *)
(* control handler or by the auto-watcher is kept, while it runs, as a record *)
(* of its caller and position.                                                *)

\* wasAAB (history): StopMonitoring was called in AwaitingAcceptButton
Call(by, p, w) == [by |-> by, pc |-> p, wasAAB |-> w]

Pending == BagToSet(calls)

\* calls made by control handlers that have not returned
CtlCalls ==
    LET S == {c \in Pending : c.by = "ctl"}
        Sum[T \in SUBSET S] ==
            IF T = {} THEN 0
            ELSE LET x == CHOOSE y \in T : TRUE IN calls[x] + Sum[T \ {x}]
    IN Sum[S]

\* call c moves on to position p
Step(c, p) == calls' = (calls (-) SetToBag({c})) (+) SetToBag({[c EXCEPT !.pc = p]})

\* call c returns to its caller
Return(c) ==
    /\ calls' = calls (-) SetToBag({c})
    /\ watcher' = IF c.by = "aw" THEN "aw_head" ELSE watcher

----------------------------------------------------------------------------
(* Initial states *)

\* answers of the external collaborators
Answer(op, res) == [op |-> op, res |-> res]
NoAnswer == Answer("none", 0)
\* the tick's CaptureScreen: NoFrame stands for an error
CaptureFailed == Answer("capture", NoFrame)
Captured(f) == Answer("capture", f)
\* the CaptureScreen after the settle delay
RecaptureFailed == Answer("recapture", NoFrame)
Recaptured(f) == Answer("recapture", f)
\* the auto-watcher's CaptureScreen
Watched(a) == Answer("watch", a)
Loaded(r) == Answer("load", CASE r = "ok" -> 0 [] r = "accept_fail" -> 1 [] OTHER -> 2)
Clicked(ok) == Answer("click", IF ok THEN 1 ELSE 0)
\* IsRunning() answered true to StartMonitoring, which returned
AlreadyRunning == Answer("running", 1)

Ev(name, x, y) == [ev |-> name, X |-> x, Y |-> y]

\* the tasks that broadcast: the poll loop, the auto-watcher, a handler
Tasks == {"loop", "aw", "ctl"}

Conns == 1..MaxConns

\* not in BroadcastMessage
Outside == [reading |-> FALSE, left |-> {}]

\* clients: make(map[*websocket.Conn]bool)
NewManager == [clients |-> {}, bcast |-> [t \in Tasks |-> Outside]]

InitCommon ==
    /\ manager = NewManager
    /\ running = FALSE
    /\ waitingForMatch = FALSE
    /\ autoWatching = FALSE
    /\ acceptTemplate = FALSE
    /\ matchingTemplate = FALSE
    /\ status = "none"
    /\ logged = "none"
    /\ watcher = "aw_init"
    /\ calls = EmptyBag
    /\ loops = EmptyBag
    /\ stopReturned = FALSE
    /\ fed = <<>>
    /\ faulted = FALSE
    /\ env = NoAnswer

\* no detector call is followed
NoCall == [fn |-> "none"]

Init ==
    /\ InitCommon
    /\ scripted = FALSE
    /\ frames = <<>>
    /\ events = <<>>
    /\ detect = NoCall

----------------------------------------------------------------------------
(* Helpers shared by the callers *)

\* history of a scenario run: the state seen after a fed frame was handled
Observe == events' = IF scripted THEN Append(events, Ev(MonitorState, -1, -1)) ELSE events

Fault == faulted' = (faulted \/ scripted)

\* variant: a failed read clears the template it was for
LoadTemplatesClearing(r) ==
    /\ acceptTemplate' = (r # "accept_fail")
    /\ matchingTemplate' = (r = "ok")

\* ImageDetector.LoadTemplates: r is the outcome of the two file reads
LoadTemplates(r) ==
    /\ acceptTemplate' = (acceptTemplate \/ r # "accept_fail")
    /\ matchingTemplate' = (matchingTemplate \/ r = "ok")

\* variant: the error of LoadTemplates is not looked at
LoadErrorIgnored(r) == FALSE
\* err != nil of "if err := a.detector.LoadTemplates(); err != nil"
LoadError(r) == r # "ok"

\* ImageDetector.CaptureScreen returning frame f
CaptureOK(f) ==
    IF scripted
    THEN /\ frames # <<>>
         /\ f = Head(frames)
         /\ frames' = Tail(frames)
         /\ fed' = Append(fed, f)
    ELSE /\ UNCHANGED <<frames, fed>>

\* a step that asks nothing of the collaborators and broadcasts nothing
Quiet == env' = NoAnswer /\ status' = "none" /\ logged' = "none"

flags     == <<running, waitingForMatch>>
templates == <<acceptTemplate, matchingTemplate>>
script    == <<scripted, frames, fed, events, detect, manager>>

----------------------------------------------------------------------------
(* StartMonitoring *)

\* variant: StartMonitoring without "if a.IsRunning() { return }"
StartMonitoringAgain(by) ==
    /\ IF by = "aw" THEN watcher = "aw_start" ELSE CtlCalls < NumCtl
    /\ status' = "none"
    /\ \E r \in {"ok", "accept_fail", "matching_fail"} :
          /\ LoadTemplates(r)
          /\ env' = Loaded(r)
          /\ IF LoadError(r)
             THEN /\ watcher' = IF by = "aw" THEN "aw_head" ELSE watcher
                  /\ logged' = "template_error"
                  /\ Fault
                  /\ UNCHANGED calls
             ELSE /\ calls' = calls (+) SetToBag({Call(by, "start_setrun", FALSE)})
                  /\ watcher' = IF by = "aw" THEN "aw_call" ELSE watcher
                  /\ logged' = "none"
                  /\ UNCHANGED faulted
    /\ UNCHANGED <<flags, autoWatching, loops, stopReturned, script>>

\* if a.IsRunning() { return }
\* if err := a.detector.LoadTemplates(); err != nil { SendLog; return }
StartMonitoring(by) ==
    /\ IF by = "aw" THEN watcher = "aw_start" ELSE CtlCalls < NumCtl
    /\ status' = "none"
    /\ IF running
       THEN /\ env' = AlreadyRunning
            /\ logged' = "none"
            /\ watcher' = IF by = "aw" THEN "aw_head" ELSE watcher
            /\ UNCHANGED <<calls, templates, faulted>>
       ELSE \E r \in {"ok", "accept_fail", "matching_fail"} :
               /\ LoadTemplates(r)
               /\ env' = Loaded(r)
               /\ IF LoadError(r)
                  THEN /\ watcher' = IF by = "aw" THEN "aw_head" ELSE watcher
                       /\ logged' = "template_error"
                       /\ Fault
                       /\ UNCHANGED calls
                  ELSE /\ calls' = calls (+) SetToBag({Call(by, "start_setrun", FALSE)})
                       /\ watcher' = IF by = "aw" THEN "aw_call" ELSE watcher
                       /\ logged' = "none"
                       /\ UNCHANGED faulted
    /\ UNCHANGED <<flags, autoWatching, loops, stopReturned, script>>

\* a.SetRunning(true)
StartSetRunning(c) ==
    /\ c.pc = "start_setrun"
    /\ Quiet
    /\ running' = TRUE
    /\ stopReturned' = FALSE
    /\ Step(c, "start_setwait")
    /\ UNCHANGED <<waitingForMatch, autoWatching, templates, watcher, loops,
                   script, faulted>>

\* variant: waitingForMatch is left as the previous session left it
StartKeepWaiting(c) ==
    /\ c.pc = "start_setwait"
    /\ Quiet
    /\ Step(c, "start_announce")
    /\ UNCHANGED <<flags, autoWatching, templates, watcher, loops,
                   stopReturned, script, faulted>>

\* a.SetWaitingForMatch(true)
StartSetWaiting(c) ==
    /\ c.pc = "start_setwait"
    /\ Quiet
    /\ waitingForMatch' = TRUE
    /\ Step(c, "start_announce")
    /\ UNCHANGED <<running, autoWatching, templates, watcher, loops,
                   stopReturned, script, faulted>>

\* UpdateStatus, SendLog, then "go func()": the poll loop goroutine is spawned
StartAnnounce(c) ==
    /\ c.pc = "start_announce"
    /\ BagCardinality(loops) < MaxLoops
    /\ env' = NoAnswer
    /\ status' = "awaiting_match"
    /\ logged' = "started"
    /\ Return(c)
    /\ loops' = loops (+) SetToBag({At("head")})
    /\ UNCHANGED <<flags, autoWatching, templates, stopReturned, script, faulted>>

----------------------------------------------------------------------------
(* StopMonitoring called by a control handler *)

\* if !a.IsRunning() { return }
StopMonitoring ==
    /\ CtlCalls < NumCtl
    /\ Quiet
    /\ calls' = IF running
                THEN calls (+) SetToBag({Call("ctl", "stop_setrun", ~waitingForMatch)})
                ELSE calls
    /\ UNCHANGED <<flags, autoWatching, templates, watcher, loops,
                   stopReturned, script, faulted>>

\* a.SetRunning(false)
StopSetRunning(c) ==
    /\ c.pc = "stop_setrun"
    /\ Quiet
    /\ running' = FALSE
    /\ Step(c, "stop_setwait")
    /\ UNCHANGED <<waitingForMatch, autoWatching, templates, watcher, loops,
                   stopReturned, script, faulted>>

\* a.SetWaitingForMatch(false)
StopSetWaiting(c) ==
    /\ c.pc = "stop_setwait"
    /\ Quiet
    /\ waitingForMatch' = FALSE
    /\ Step(c, "stop_status")
    /\ UNCHANGED <<running, autoWatching, templates, watcher, loops,
                   stopReturned, script, faulted>>

\* UpdateStatus("stopped"), SendLog, return
StopAnnounce(c) ==
    /\ c.pc = "stop_status"
    /\ env' = NoAnswer
    /\ status' = "stopped"
    /\ logged' = "stopped"
    /\ Return(c)
    /\ stopReturned' = (stopReturned \/ (c.wasAAB /\ ~running))
    /\ UNCHANGED <<flags, autoWatching, templates, loops, script, faulted>>

----------------------------------------------------------------------------
(* StopMonitoring run by a poll loop (auto-stop), after which the loop returns *)

\* if !a.IsRunning() { return }
LoopStopMonitoring(r) ==
    /\ r.pc = "stop_check"
    /\ Quiet
    /\ IF running
       THEN /\ Move(r, At("stop_setrun"))
            /\ UNCHANGED events
       ELSE /\ Exit(r)
            /\ Observe
    /\ UNCHANGED <<flags, autoWatching, templates, watcher, calls, stopReturned,
                   scripted, detect, manager, frames, fed, faulted>>

\* a.SetRunning(false)
LoopStopSetRunning(r) ==
    /\ r.pc = "stop_setrun"
    /\ Quiet
    /\ running' = FALSE
    /\ Move(r, At("stop_setwait"))
    /\ UNCHANGED <<waitingForMatch, autoWatching, templates, watcher, calls,
                   stopReturned, script, faulted>>

\* a.SetWaitingForMatch(false)
LoopStopSetWaiting(r) ==
    /\ r.pc = "stop_setwait"
    /\ Quiet
    /\ waitingForMatch' = FALSE
    /\ Move(r, At("stop_status"))
    /\ UNCHANGED <<running, autoWatching, templates, watcher, calls,
                   stopReturned, script, faulted>>

\* UpdateStatus("stopped"), SendLog, return from StopMonitoring and from the loop
LoopStopAnnounce(r) ==
    /\ r.pc = "stop_status"
    /\ env' = NoAnswer
    /\ status' = "stopped"
    /\ logged' = "stopped"
    /\ Exit(r)
    /\ Observe
    /\ UNCHANGED <<flags, autoWatching, templates, watcher, calls, stopReturned,
                   scripted, detect, manager, frames, fed, faulted>>

----------------------------------------------------------------------------
(* The poll loop goroutine of StartMonitoring *)

\* variant: the loop never looks at running
LoopForever == TRUE
\* variant: the loop condition negated
LoopConditionNegated == ~running
\* the loop condition of "for a.IsRunning()"
LoopCondition == running

\* for a.IsRunning() { ... }
LoopHead(r) ==
    /\ r.pc = "head"
    /\ Quiet
    /\ IF LoopCondition THEN Move(r, At("tick")) ELSE Exit(r)
    /\ UNCHANGED <<flags, autoWatching, templates, watcher, calls, stopReturned,
                   script, faulted>>

\* what the AwaitingAcceptButton branch does with a frame showing the matching
\* screen: buttonPos := FastDetectAcceptButton(img); if buttonPos != nil {
\* verifyScore := VerifyAcceptButton(img, buttonPos, 1.0)
\* if verifyScore > 0.2 { click } else { log the skip } }
ButtonSearch(r, f) ==
    LET pos == FastDetectAcceptButton(f) IN
    IF pos = Nil
    THEN /\ Move(r, At("head"))
         /\ logged' = "none"
    ELSE IF ShouldClick(VerifyAcceptButton(f, pos))
         THEN /\ Move(r, Loop("click", pos))
              /\ logged' = "button_found"
         ELSE /\ Move(r, At("head"))
              /\ logged' = "score_low"

\* variant: a tick whose detector call sets waitingForMatch
LoopTickWriting(r) ==
    /\ r.pc = "tick"
    /\ status' = "none"
    /\ logged' = "none"
    /\ \E f \in Frames :
          /\ CaptureOK(f)
          /\ env' = Captured(f)
    /\ waitingForMatch' = FastDetectMatchingScreen(env'.res)
    /\ Move(r, At("head"))
    /\ UNCHANGED <<running, autoWatching, templates, watcher, calls,
                   stopReturned, scripted, detect, manager, events, faulted>>

\* <-ticker.C; img, err := CaptureScreen(); if err != nil { continue }
\* if a.IsWaitingForMatch() { if FastDetectMatchingScreen(img) {...} else {...} }
\* else { if !FastDetectMatchingScreen(img) { StopMonitoring(); return } ... }
LoopTick(r) ==
    /\ r.pc = "tick"
    /\ status' = "none"
    /\ \/ /\ Move(r, At("head"))
          /\ env' = CaptureFailed
          /\ Fault
          /\ logged' = "none"
          /\ UNCHANGED <<frames, fed, events>>
       \/ \E f \in Frames :
             /\ CaptureOK(f)
             /\ env' = Captured(f)
             /\ UNCHANGED faulted
             /\ IF waitingForMatch
                THEN IF FastDetectMatchingScreen(f)
                     THEN /\ Move(r, At("set_nowait"))
                          /\ logged' = "match_detected"
                          /\ UNCHANGED events
                     ELSE /\ Move(r, At("head"))
                          /\ logged' = "none"
                          /\ Observe
                ELSE IF FastDetectMatchingScreen(f)
                     THEN /\ ButtonSearch(r, f)
                          /\ Observe
                     ELSE /\ Move(r, At("stop_check"))
                          /\ logged' = "screen_gone"
                          /\ UNCHANGED events
    /\ UNCHANGED <<flags, autoWatching, templates, watcher, calls, stopReturned,
                   scripted, detect, manager>>

\* variant: the tick that saw the matching screen leaves waitingForMatch set
LoopKeepWaiting(r) ==
    /\ r.pc = "set_nowait"
    /\ Quiet
    /\ Move(r, At("status_btn"))
    /\ UNCHANGED <<flags, autoWatching, templates, watcher, calls, stopReturned,
                   script, faulted>>

\* a.SetWaitingForMatch(false)
LoopSetNoWait(r) ==
    /\ r.pc = "set_nowait"
    /\ Quiet
    /\ waitingForMatch' = FALSE
    /\ Move(r, At("status_btn"))
    /\ UNCHANGED <<running, autoWatching, templates, watcher, calls, stopReturned,
                   script, faulted>>

\* UpdateStatus("watching for accept button"); end of the tick
LoopStatusButton(r) ==
    /\ r.pc = "status_btn"
    /\ env' = NoAnswer
    /\ status' = "watching"
    /\ logged' = "none"
    /\ Move(r, At("head"))
    /\ Observe
    /\ UNCHANGED <<flags, autoWatching, templates, watcher, calls, stopReturned,
                   scripted, detect, manager, frames, fed, faulted>>

\* a.systemCtrl.ClickAcceptButton(buttonPos.X, buttonPos.Y) is entered
ClickBegin(r) ==
    /\ r.pc = "click"
    /\ Quiet
    /\ Move(r, Loop("clicking", r.buttonPos))
    /\ events' = IF scripted
                 THEN Append(events, Ev("click", r.buttonPos.X, r.buttonPos.Y))
                 ELSE events
    /\ UNCHANGED <<flags, autoWatching, templates, watcher, calls, stopReturned,
                   scripted, detect, manager, frames, fed, faulted>>

\* variant: the settle delay and the re-check follow a failed click too
ClickEndSettles(r) ==
    /\ r.pc = "clicking"
    /\ status' = "none"
    /\ \E ok \in BOOLEAN :
          /\ env' = Clicked(ok)
          /\ Move(r, At("settle"))
          /\ logged' = IF ok THEN "clicked" ELSE "click_failed"
          /\ IF ok THEN UNCHANGED faulted ELSE Fault
    /\ UNCHANGED <<flags, autoWatching, templates, watcher, calls, stopReturned,
                   script>>

\* ClickAcceptButton returns true (log, then the settle delay begins) or false (log)
ClickEnd(r) ==
    /\ r.pc = "clicking"
    /\ status' = "none"
    /\ \E ok \in BOOLEAN :
          /\ env' = Clicked(ok)
          /\ IF ok
             THEN /\ Move(r, At("settle"))
                  /\ logged' = "clicked"
                  /\ UNCHANGED faulted
             ELSE /\ Move(r, At("head"))
                  /\ logged' = "click_failed"
                  /\ Fault
    /\ UNCHANGED <<flags, autoWatching, templates, watcher, calls, stopReturned,
                   script>>

\* variant: the re-check never finds the matching screen gone
NeverGone(a) == FALSE
\* variant: a failed re-capture counts as the matching screen being gone
GoneOrError(a) == a = NoFrame \/ ~FastDetectMatchingScreen(a)
\* err == nil && !a.detector.FastDetectMatchingScreen(img2); a = NoFrame is the error
GoneAfterClick(a) == a # NoFrame /\ ~FastDetectMatchingScreen(a)

\* time.Sleep(5 * time.Second); img2, err := CaptureScreen()
\* if err == nil && !FastDetectMatchingScreen(img2) { StopMonitoring(); return }
LoopRecheck(r) ==
    /\ r.pc = "settle"
    /\ status' = "none"
    /\ \E a \in {NoFrame} \cup Frames :
          /\ IF a = NoFrame
             THEN Fault /\ UNCHANGED <<frames, fed>>
             ELSE CaptureOK(a) /\ UNCHANGED faulted
          /\ env' = Answer("recapture", a)
          /\ IF GoneAfterClick(a)
             THEN /\ Move(r, At("stop_check"))
                  /\ logged' = "screen_gone"
                  /\ UNCHANGED events
             ELSE /\ Move(r, At("head"))
                  /\ logged' = "still_present"
                  /\ IF a = NoFrame THEN UNCHANGED events ELSE Observe
    /\ UNCHANGED <<flags, autoWatching, templates, watcher, calls, stopReturned,
                   scripted, detect, manager>>

----------------------------------------------------------------------------
(* The auto-watcher: StartAutoWatcher and its goroutine *)

\* if err := a.detector.LoadTemplates(); err != nil { return }
\* a.SetAutoWatching(true); go func()
StartAutoWatcher ==
    /\ watcher = "aw_init"
    /\ status' = "none"
    /\ logged' = "none"
    /\ \E r \in {"ok", "accept_fail", "matching_fail"} :
          /\ LoadTemplates(r)
          /\ env' = Loaded(r)
          /\ autoWatching' = (r = "ok")
          /\ watcher' = (IF r = "ok" THEN "aw_head" ELSE "aw_off")
    /\ UNCHANGED <<flags, calls, loops, stopReturned, script, faulted>>

\* for a.IsAutoWatching() { <-ticker.C ...
AutoWatcherHead ==
    /\ watcher = "aw_head"
    /\ Quiet
    /\ watcher' = (IF autoWatching THEN "aw_tick" ELSE "aw_off")
    /\ UNCHANGED <<flags, autoWatching, templates, calls, loops, stopReturned,
                   script, faulted>>

\* variant: the auto-watcher does not look at running
AutoWatcherTickBlind ==
    /\ watcher = "aw_tick"
    /\ Quiet
    /\ watcher' = "aw_capture"
    /\ UNCHANGED <<flags, autoWatching, templates, calls, loops, stopReturned,
                   script, faulted>>

\* if a.IsRunning() { continue }
AutoWatcherTick ==
    /\ watcher = "aw_tick"
    /\ Quiet
    /\ watcher' = (IF running THEN "aw_head" ELSE "aw_capture")
    /\ UNCHANGED <<flags, autoWatching, templates, calls, loops, stopReturned,
                   script, faulted>>

\* img, err := CaptureScreen(); if err != nil { continue }
\* if FastDetectMatchingScreen(img) { SendLog; StartMonitoring() }
AutoWatcherCapture ==
    /\ watcher = "aw_capture"
    /\ status' = "none"
    /\ \E a \in {NoFrame} \cup Frames :
          /\ env' = Watched(a)
          /\ IF a # NoFrame /\ FastDetectMatchingScreen(a)
             THEN /\ watcher' = "aw_start"
                  /\ logged' = "aw_detected"
             ELSE /\ watcher' = "aw_head"
                  /\ logged' = "none"
    /\ UNCHANGED <<flags, autoWatching, templates, calls, loops, stopReturned,
                   script, faulted>>

----------------------------------------------------------------------------
(* TestEnvironment *)

\* the outcome of TestEnvironment's LoadTemplates
Tested(r) == Answer("test", CASE r = "ok" -> 0 [] r = "accept_fail" -> 1 [] OTHER -> 2)

\* variant: a diagnostic run that ends the session
TestEnvironmentStops ==
    /\ ~scripted
    /\ env' = Tested("ok")
    /\ status' = "none"
    /\ logged' = "test_done"
    /\ running' = FALSE
    /\ UNCHANGED <<waitingForMatch, autoWatching, templates, watcher, calls,
                   loops, stopReturned, script, faulted>>

\* img, err := a.detector.CaptureScreen(); a.detector.LoadTemplates();
\* if err == nil { FastDetectMatchingScreen(img); FastDetectAcceptButton(img) };
\* SendLog of each result, the last one "環境テスト完了".  The detector calls
\* change nothing; it takes no lock and reads no flag.  With a frame captured
\* and no accept template, FastDetectAcceptButton calls Bounds() on the nil
\* template in templateMatchFast and the handler ends there.
TestEnvironment ==
    /\ ~scripted
    /\ \E r \in {"ok", "accept_fail", "matching_fail"} :
          /\ LoadTemplates(r)
          /\ env' = Tested(r)
    /\ status' = "none"
    /\ \E captured \in BOOLEAN :
          logged' = IF captured /\ ~acceptTemplate' THEN "test_aborted" ELSE "test_done"
    /\ UNCHANGED <<flags, autoWatching, watcher, calls, loops, stopReturned,
                   script, faulted>>

-----------------------------------------------------------------------------
(* FastDetectAcceptButton, statement by statement.  What templateMatchFast, *)
(* VerifyAcceptButton, detectButtonByColor and detectButtonByEdge return on *)
(* the frame are the arguments.                                             *)

Pt(n) == [X |-> 100 * n, Y |-> 300 + n]

\* one "templateMatchFast(img, d.acceptTemplate, threshold, searchArea, scale)"
\* with the VerifyAcceptButton score of its position, in thousandths
Miss == [pos |-> Nil, score |-> 0]
ScanResults == {Miss} \cup {[pos |-> Pt(n), score |-> sc] : n \in {1, 2}, sc \in {0, 300, 900}}
ColorResults == {Nil, Pt(3)}
EdgeResults == {Nil, Pt(4)}

\* var bestMatch *Point; var bestScore float64
AcceptButtonCall(scans, color, edge) ==
    [fn |-> "FastDetectAcceptButton", scans |-> scans, color |-> color, edge |-> edge,
     pc |-> "template", i |-> 1, bestMatch |-> Nil, bestScore |-> 0, tried |-> {}]

InitAcceptButton ==
    /\ InitCommon
    /\ scripted = FALSE
    /\ frames = <<>>
    /\ events = <<>>
    /\ detect \in {AcceptButtonCall(scans, color, edge) :
                     scans \in [1..MaxScans -> ScanResults],
                     color \in ColorResults, edge \in EdgeResults}

\* one pass of "for _, threshold ... for _, scale ...":
\* if pos := templateMatchFast(...); pos != nil { score := VerifyAcceptButton(...)
\* if score > bestScore { bestScore = score; bestMatch = pos } }
TemplateMethod ==
    /\ detect.pc = "template"
    /\ LET h    == detect.scans[detect.i]
           best == h.pos # Nil /\ h.score > detect.bestScore
       IN  detect' = [detect EXCEPT
                        !.bestMatch = IF best THEN h.pos ELSE @,
                        !.bestScore = IF best THEN h.score ELSE @,
                        !.i = @ + 1,
                        !.tried = @ \cup {"template"},
                        !.pc = IF detect.i = Len(detect.scans) THEN "color" ELSE "template"]
    /\ UNCHANGED <<program, manager>>

\* variant: the colour method runs whatever the template method found
ColorMethodAlways ==
    /\ detect.pc = "color"
    /\ detect' = [detect EXCEPT !.bestMatch = detect.color,
                                !.tried = @ \cup {"color"},
                                !.pc = "edge"]
    /\ UNCHANGED <<program, manager>>

\* if bestMatch == nil { bestMatch = d.detectButtonByColor(img, searchArea) }
ColorMethod ==
    /\ detect.pc = "color"
    /\ detect' = IF detect.bestMatch = Nil
                  THEN [detect EXCEPT !.bestMatch = detect.color,
                                      !.tried = @ \cup {"color"},
                                      !.pc = "edge"]
                  ELSE [detect EXCEPT !.pc = "edge"]
    /\ UNCHANGED <<program, manager>>

\* if bestMatch == nil { bestMatch = d.detectButtonByEdge(img, searchArea) }
\* return bestMatch
EdgeMethod ==
    /\ detect.pc = "edge"
    /\ detect' = IF detect.bestMatch = Nil
                  THEN [detect EXCEPT !.bestMatch = detect.edge,
                                      !.tried = @ \cup {"edge"},
                                      !.pc = "return"]
                  ELSE [detect EXCEPT !.pc = "return"]
    /\ UNCHANGED <<program, manager>>

NextAcceptButton ==
    \/ TemplateMethod
    \/ ColorMethod
    \/ EdgeMethod

SpecAcceptButton == InitAcceptButton /\ [][NextAcceptButton]_vars

-----------------------------------------------------------------------------
(* templateMatchFast, statement by statement.  The frame is MaxSide x      *)
(* MaxSide, the template 2 x 2; what calculateSimilarityFast returns on    *)
(* each window, in thousandths, is an argument.                            *)

\* int(float64(needleBounds.Dx()) * scale), scale in thousandths
Scaled(side, scale) == (side * scale) \div 1000

Rect(x0, y0, x1, y1) == [MinX |-> x0, MinY |-> y0, MaxX |-> x1, MaxY |-> y1]

\* "if searchArea.Min.X < haystackBounds.Min.X { ... }" and the three others
Clip(a, h) ==
    Rect(IF a.MinX < h.MinX THEN h.MinX ELSE a.MinX,
         IF a.MinY < h.MinY THEN h.MinY ELSE a.MinY,
         IF a.MaxX > h.MaxX THEN h.MaxX ELSE a.MaxX,
         IF a.MaxY > h.MaxY THEN h.MaxY ELSE a.MaxY)

\* the origins <<x, y>> the two loops visit in area a: step := 2
Windows(a, w, h) ==
    {<<x, y>> : x \in {v \in a.MinX..(a.MaxX - w) : (v - a.MinX) % 2 = 0},
                y \in {v \in a.MinY..(a.MaxY - h) : (v - a.MinY) % 2 = 0}}

TemplateMatchCall(area, scale, threshold, scores) ==
    [fn |-> "templateMatchFast",
     haystack |-> Rect(0, 0, MaxSide, MaxSide),
     needleWidth |-> Scaled(2, scale), needleHeight |-> Scaled(2, scale),
     threshold |-> threshold, searchArea |-> area, scores |-> scores,
     pc |-> "clip", x |-> 0, y |-> 0, bestMatch |-> Nil, bestScore |-> 0]

InitTemplateMatch ==
    /\ InitCommon
    /\ scripted = FALSE
    /\ frames = <<>>
    /\ events = <<>>
    /\ \E m \in {-2, 1}, scale \in {1000, 1500} :
          LET area == Rect(m, m, MaxSide + 2, MaxSide + 2)
              w    == Scaled(2, scale)
              seen == Windows(Clip(area, Rect(0, 0, MaxSide, MaxSide)), w, w)
          IN  detect \in {TemplateMatchCall(area, scale, 600, scores) :
                             scores \in [seen -> {600, 800, 900}]}

\* the four "if searchArea..." ; var bestMatch *Point; bestScore := threshold;
\* y := searchArea.Min.Y; x := searchArea.Min.X
ClipSearchArea ==
    /\ detect.pc = "clip"
    /\ LET a == Clip(detect.searchArea, detect.haystack)
       IN  detect' = [detect EXCEPT
                        !.searchArea = a,
                        !.bestScore = detect.threshold,
                        !.x = a.MinX,
                        !.y = a.MinY,
                        !.pc = IF /\ a.MinY <= a.MaxY - detect.needleHeight
                                  /\ a.MinX <= a.MaxX - detect.needleWidth
                               THEN "scan" ELSE "return"]
    /\ UNCHANGED <<program, manager>>

\* x += step, and at the end of the row y += step; x = searchArea.Min.X
Advance(d) ==
    IF d.x + 2 <= d.searchArea.MaxX - d.needleWidth
    THEN [d EXCEPT !.x = @ + 2]
    ELSE IF d.y + 2 <= d.searchArea.MaxY - d.needleHeight
         THEN [d EXCEPT !.x = d.searchArea.MinX, !.y = @ + 2]
         ELSE [d EXCEPT !.pc = "return"]

\* variant: a window replaces the best one when it scores as much
ScanWindowAtLeast ==
    /\ detect.pc = "scan"
    /\ LET score == detect.scores[<<detect.x, detect.y>>]
       IN  detect' = Advance(IF score >= detect.bestScore
                             THEN [detect EXCEPT
                                     !.bestScore = score,
                                     !.bestMatch = [X |-> detect.x + detect.needleWidth \div 2,
                                                    Y |-> detect.y + detect.needleHeight \div 2]]
                             ELSE detect)
    /\ UNCHANGED <<program, manager>>

\* score := d.calculateSimilarityFast(haystack, needle, x, y, scale)
\* if score > bestScore { bestScore = score
\* bestMatch = &Point{X: x + needleWidth/2, Y: y + needleHeight/2} }
ScanWindow ==
    /\ detect.pc = "scan"
    /\ LET score == detect.scores[<<detect.x, detect.y>>]
       IN  detect' = Advance(IF score > detect.bestScore
                             THEN [detect EXCEPT
                                     !.bestScore = score,
                                     !.bestMatch = [X |-> detect.x + detect.needleWidth \div 2,
                                                    Y |-> detect.y + detect.needleHeight \div 2]]
                             ELSE detect)
    /\ UNCHANGED <<program, manager>>

NextTemplateMatch ==
    \/ ClipSearchArea
    \/ ScanWindow

SpecTemplateMatch == InitTemplateMatch /\ [][NextTemplateMatch]_vars

-----------------------------------------------------------------------------
(* VerifyAcceptButton and the poll loop's firing test on its score.  The    *)
(* frame is MaxSide x MaxSide, the template 2 x 2; the strict-match ratio   *)
(* and the colour bonus on the frame, in thousandths, are arguments.        *)

VerifyCall(loaded, pos, scale, ratio, bonus) ==
    [fn |-> "VerifyAcceptButton", acceptTemplate |-> loaded, pos |-> pos,
     scale |-> scale, img |-> Rect(0, 0, MaxSide, MaxSide),
     ratio |-> ratio, bonus |-> bonus,
     pc |-> "verify", verifyScore |-> 0, click |-> FALSE]

InitVerify ==
    /\ InitCommon
    /\ scripted = FALSE
    /\ frames = <<>>
    /\ events = <<>>
    /\ detect \in {VerifyCall(loaded, [X |-> x, Y |-> y], scale, ratio, bonus) :
                     loaded \in BOOLEAN, x \in {0, 2, MaxSide}, y \in {0, 2, MaxSide},
                     scale \in {500, 1000, 1500},
                     ratio \in {0, 150, 1000}, bonus \in {0, 100, 200}}

\* variant: a footprint outside the frame scores zero
VerifyZeroOutside(d) ==
    IF ~d.acceptTemplate THEN 500
    ELSE LET needleWidth  == Scaled(2, d.scale)
             needleHeight == Scaled(2, d.scale)
             startX == d.pos.X - needleWidth \div 2
             startY == d.pos.Y - needleHeight \div 2
         IN  IF \/ startX < 0
                \/ startY < 0
                \/ startX + needleWidth >= d.img.MaxX
                \/ startY + needleHeight >= d.img.MaxY
             THEN 0
             ELSE d.ratio + d.bonus

\* ImageDetector.VerifyAcceptButton(img, pos, scale)
VerifyAcceptButtonAt(d) ==
    IF ~d.acceptTemplate THEN 500
    ELSE LET needleWidth  == Scaled(2, d.scale)
             needleHeight == Scaled(2, d.scale)
             startX == d.pos.X - needleWidth \div 2
             startY == d.pos.Y - needleHeight \div 2
         IN  IF \/ startX < 0
                \/ startY < 0
                \/ startX + needleWidth >= d.img.MaxX
                \/ startY + needleHeight >= d.img.MaxY
             THEN 300
             ELSE d.ratio + d.bonus

\* verifyScore := a.detector.VerifyAcceptButton(img, buttonPos, 1.0)
VerifyCandidate ==
    /\ detect.pc = "verify"
    /\ detect' = [detect EXCEPT !.verifyScore = VerifyAcceptButtonAt(detect),
                                !.pc = "fire"]
    /\ UNCHANGED <<program, manager>>

\* if verifyScore > 0.2 { ... a.systemCtrl.ClickAcceptButton(buttonPos.X, buttonPos.Y) }
FireOnScore ==
    /\ detect.pc = "fire"
    /\ detect' = [detect EXCEPT !.click = ShouldClick(detect.verifyScore),
                                !.pc = "return"]
    /\ UNCHANGED <<program, manager>>

NextVerify ==
    \/ VerifyCandidate
    \/ FireOnScore

SpecVerify == InitVerify /\ [][NextVerify]_vars

-----------------------------------------------------------------------------
(* FastDetectMatchingScreen, statement by statement.  Whether               *)
(* templateMatchFast hits at each scale, and the counts of the text         *)
(* sampling, are the arguments.                                             *)

\* scales := []float64{0.5, 0.7, 0.8, 1.2, 1.5, 2.0}, in thousandths
Scales == <<500, 700, 800, 1200, 1500, 2000>>

\* first: templateMatchFast(img, d.matchingTemplate, 0.6, searchArea, 1.0) != nil
\* hits: the scales at which templateMatchFast(..., 0.5, searchArea, scale) != nil
MatchingScreenCall(loaded, first, hits, total, white) ==
    [fn |-> "FastDetectMatchingScreen", matchingTemplate |-> loaded,
     first |-> first, hits |-> hits,
     totalSamples |-> total, matchingTextCount |-> white,
     pc |-> "template", i |-> 1, scans |-> 0, result |-> FALSE]

InitMatchingScreen ==
    /\ InitCommon
    /\ scripted = FALSE
    /\ frames = <<>>
    /\ events = <<>>
    /\ detect \in {MatchingScreenCall(loaded, first, hits, n[1], n[2]) :
                     loaded \in BOOLEAN, first \in BOOLEAN,
                     hits \in SUBSET {Scales[i] : i \in 1..Len(Scales)},
                     n \in {<<0, 0>>, <<100, 0>>, <<100, 5>>, <<100, 6>>}}

\* if d.matchingTemplate != nil {
\*   if pos := d.templateMatchFast(img, d.matchingTemplate, 0.6, searchArea, 1.0); pos != nil { return true }
ScanFullScale ==
    /\ detect.pc = "template"
    /\ detect' = IF ~detect.matchingTemplate
                  THEN [detect EXCEPT !.pc = "text"]
                  ELSE IF detect.first
                       THEN [detect EXCEPT !.scans = @ + 1, !.result = TRUE, !.pc = "return"]
                       ELSE [detect EXCEPT !.scans = @ + 1, !.pc = "scales"]
    /\ UNCHANGED <<program, manager>>

\* for _, scale := range scales {
\*   if pos := d.templateMatchFast(img, d.matchingTemplate, 0.5, searchArea, scale); pos != nil { return true } }
ScanScale ==
    /\ detect.pc = "scales"
    /\ detect' = IF Scales[detect.i] \in detect.hits
                  THEN [detect EXCEPT !.scans = @ + 1, !.result = TRUE, !.pc = "return"]
                  ELSE IF detect.i = Len(Scales)
                       THEN [detect EXCEPT !.scans = @ + 1, !.pc = "text"]
                       ELSE [detect EXCEPT !.scans = @ + 1, !.i = @ + 1]
    /\ UNCHANGED <<program, manager>>

\* variant: 5% of near-white samples is enough
TextSignalAtLeast ==
    /\ detect.pc = "text"
    /\ detect' = [detect EXCEPT
                    !.result = /\ detect.totalSamples > 0
                               /\ detect.matchingTextCount * 100 >= 5 * detect.totalSamples,
                    !.pc = "return"]
    /\ UNCHANGED <<program, manager>>

\* if totalSamples > 0 { textRatio := float64(matchingTextCount) / float64(totalSamples)
\*   if textRatio > 0.05 { return true } }
\* return false
TextSignal ==
    /\ detect.pc = "text"
    /\ detect' = [detect EXCEPT
                    !.result = /\ detect.totalSamples > 0
                               /\ detect.matchingTextCount * 100 > 5 * detect.totalSamples,
                    !.pc = "return"]
    /\ UNCHANGED <<program, manager>>

NextMatchingScreen ==
    \/ ScanFullScale
    \/ ScanScale
    \/ TextSignal

SpecMatchingScreen == InitMatchingScreen /\ [][NextMatchingScreen]_vars

-----------------------------------------------------------------------------
(* websocket.Manager.  Lock() is granted when nobody holds clientsMutex,    *)
(* RLock() when nobody holds it for writing; a critical section under       *)
(* Lock() is one step.                                                      *)

Readers == {t \in Tasks : manager.bcast[t].reading}

\* m.clientsMutex.Lock(); m.clients[conn] = true; m.clientsMutex.Unlock()
HandleConnection(c) ==
    /\ c \notin manager.clients
    /\ Readers = {}
    /\ manager' = [manager EXCEPT !.clients = @ \cup {c}]
    /\ UNCHANGED <<program, detect>>

\* m.clientsMutex.Lock(); defer m.clientsMutex.Unlock(); delete(m.clients, conn)
RemoveConnection(c) ==
    /\ c \in manager.clients
    /\ Readers = {}
    /\ manager' = [manager EXCEPT !.clients = @ \ {c}]
    /\ UNCHANGED <<program, detect>>

\* m.clientsMutex.RLock(); defer m.clientsMutex.RUnlock(); json.Marshal;
\* for client := range m.clients
BroadcastRLock(t) ==
    /\ ~manager.bcast[t].reading
    /\ manager' = [manager EXCEPT !.bcast[t] = [reading |-> TRUE, left |-> manager.clients]]
    /\ UNCHANGED <<program, detect>>

\* err := client.WriteMessage(websocket.TextMessage, jsonData)
\* if err != nil { client.Close(); delete(m.clients, client) }
\* A client deleted meanwhile is not visited.
BroadcastWrite(t, c) ==
    /\ manager.bcast[t].reading
    /\ c \in manager.bcast[t].left
    /\ \E err \in BOOLEAN :
          manager' = [manager EXCEPT
                        !.bcast[t].left = @ \ {c},
                        !.clients = IF err /\ c \in manager.clients THEN @ \ {c} ELSE @]
    /\ UNCHANGED <<program, detect>>

\* the range is over: the deferred RUnlock
BroadcastRUnlock(t) ==
    /\ manager.bcast[t].reading
    /\ manager.bcast[t].left = {}
    /\ manager' = [manager EXCEPT !.bcast[t] = Outside]
    /\ UNCHANGED <<program, detect>>

NextManager ==
    \/ \E c \in Conns : HandleConnection(c) \/ RemoveConnection(c)
    \/ \E t \in Tasks : BroadcastRLock(t) \/ BroadcastRUnlock(t)
    \/ \E t \in Tasks, c \in Conns : BroadcastWrite(t, c)

SpecManager == Init /\ [][NextManager]_vars

-----------------------------------------------------------------------------
(* Specifications *)

Starter(c) ==
    \/ StartSetRunning(c)
    \/ StartSetWaiting(c)
    \/ StartAnnounce(c)

Stopper(c) ==
    \/ StopSetRunning(c)
    \/ StopSetWaiting(c)
    \/ StopAnnounce(c)

PollLoop(r) ==
    \/ LoopHead(r)
    \/ LoopTick(r)
    \/ LoopSetNoWait(r)
    \/ LoopStatusButton(r)
    \/ ClickBegin(r)
    \/ ClickEnd(r)
    \/ LoopRecheck(r)
    \/ LoopStopMonitoring(r)
    \/ LoopStopSetRunning(r)
    \/ LoopStopSetWaiting(r)
    \/ LoopStopAnnounce(r)

AutoWatcher ==
    \/ StartAutoWatcher
    \/ AutoWatcherHead
    \/ AutoWatcherTick
    \/ AutoWatcherCapture

\* the whole program: handlers, poll loops and the auto-watcher
Next ==
    \/ \E by \in {"ctl", "aw"} : StartMonitoring(by)
    \/ StopMonitoring
    \/ \E c \in Pending : Starter(c) \/ Stopper(c)
    \/ \E r \in Live : PollLoop(r)
    \/ AutoWatcher
    \/ TestEnvironment

Spec == Init /\ [][Next]_vars

\* the handlers and the poll loops.  A handler may call StartMonitoring at any
\* time, the auto-watcher only after it saw running = FALSE and the matching
\* screen, so the auto-watcher's calls are among those of one more handler.
NextHandlers ==
    \/ StartMonitoring("ctl")
    \/ StopMonitoring
    \/ \E c \in Pending : Starter(c) \/ Stopper(c)
    \/ \E r \in Live : PollLoop(r)

SpecHandlers == Init /\ [][NextHandlers]_vars

\* the handlers and the poll loops, where a poll loop that can take a step
\* eventually takes one: the ticker keeps ticking, and CaptureScreen, the
\* detector, ClickAcceptButton and the sleep return
PollLoopStep == \E r \in Live : PollLoop(r)

SpecLive == Init /\ [][NextHandlers]_vars /\ WF_vars(PollLoopStep)

\* every caller of LoadTemplates: the handlers' StartMonitoring and
\* TestEnvironment and the load at the start of StartAutoWatcher, with the
\* poll loops.  The auto-watcher's later calls of StartMonitoring are among
\* those of the handlers.
NextTemplates ==
    \/ NextHandlers
    \/ TestEnvironment
    \/ StartAutoWatcher

SpecTemplates == Init /\ [][NextTemplates]_vars

\* the auto-watcher as the only caller of StartMonitoring, the handlers
\* calling StopMonitoring, and the poll loops
NextWatcher ==
    \/ StartMonitoring("aw")
    \/ StopMonitoring
    \/ \E c \in Pending : Starter(c) \/ Stopper(c)
    \/ \E r \in Live : PollLoop(r)
    \/ AutoWatcher

SpecWatcher == Init /\ [][NextWatcher]_vars

\* a scenario run: one StartMonitoring, then the poll loop fed from a script
InitScenario ==
    /\ InitCommon
    /\ scripted = TRUE
    /\ frames \in [1..MaxScript -> Frames]
    /\ events = <<Ev(MonitorState, -1, -1)>>
    /\ detect = NoCall

NextScenario ==
    \/ /\ Len(events) = 1 /\ calls = EmptyBag /\ loops = EmptyBag
       /\ StartMonitoring("ctl")
    \/ \E c \in Pending : Starter(c)
    \/ \E r \in Live : PollLoop(r)

SpecScenario == InitScenario /\ [][NextScenario]_vars

----------------------------------------------------------------------------
(* Properties *)

\* poll loop r takes a step that leaves it as r2
Stepped(r, r2) == r \in Live /\ r2 # r /\ Move(r, r2)

\* poll loop r returns in this step
Exited(r) == r \in Live /\ Exit(r)

\* the poll loops after the step
After == BagToSet(loops')

\* a poll loop handles its tick's capture and is left as r2
Ticked(r2) == env'.op = "capture" /\ Stepped(At("tick"), r2)

\* a poll loop handles the capture after the settle delay and is left as r2
Rechecked(r2) == env'.op = "recapture" /\ Stepped(At("settle"), r2)

\* a poll loop enters ClickAcceptButton in this step
ClickIssued == \E r \in Live : r.pc = "click" /\ Stepped(r, Loop("clicking", r.buttonPos))

StopPositions == {"stop_check", "stop_setrun", "stop_setwait", "stop_status"}

IsPrefix(s, t) == Len(s) <= Len(t) /\ SubSeq(t, 1, Len(s)) = s

\* C1: once a StopMonitoring that was called in AwaitingAcceptButton has
\* returned (and running has not been set again), no poll loop issues a
\* ClickAcceptButton call.
C1_NoClickAfterStop == [][stopReturned => ~ClickIssued]_vars

\* C2: at every moment at most one poll loop goroutine is alive.
C2_SingleLoop == BagCardinality(loops) <= 1

\* C3: no two ClickAcceptButton invocations are in progress at the same time,
\* and none is in progress while another poll loop is in its settle delay or
\* re-verification.
C3_ClicksSequential ==
    /\ CountAt({"clicking"}) <= 1
    /\ CountAt({"clicking"}) = 1 => CountAt({"settle"}) = 0

\* the frame sequence of the end-to-end scenario: no-match, no-match, matching
\* screen, matching screen with a button at (500,600) scoring 0.9, no-match
Scenario == <<1, 1, 2, 3, 1>>

Expected ==
    << Ev("Idle", -1, -1), Ev("AwaitingMatchScreen", -1, -1),
       Ev("AwaitingMatchScreen", -1, -1), Ev("AwaitingAcceptButton", -1, -1),
       Ev("AwaitingAcceptButton", -1, -1), Ev("click", 500, 600), Ev("Idle", -1, -1) >>

\* C4: a start followed by the scenario's frames, with nothing failing, yields
\* the trace Idle, AwaitingMatchScreen, AwaitingMatchScreen,
\* AwaitingAcceptButton, AwaitingAcceptButton, one click at (500,600), Idle, and
\* the poll loop has returned when the last state is observed.
C4_ScenarioTrace ==
    (~faulted /\ IsPrefix(fed, Scenario)) =>
        /\ IsPrefix(events, Expected)
        /\ (fed = Scenario /\ loops = EmptyBag) =>
              events = Expected /\ MonitorState = "Idle"
        /\ events = Expected => loops = EmptyBag /\ fed = Scenario

\* the scenario has run to its end
C4_ScenarioDone ==
    /\ ~faulted
    /\ fed = Scenario
    /\ events = Expected
    /\ loops = EmptyBag
    /\ MonitorState = "Idle"

\* C5: in an AwaitingAcceptButton tick with a button candidate the loop goes on
\* to click, at the candidate's coordinates, exactly when the score is strictly
\* above the threshold; otherwise the tick ends with the flags unchanged and no
\* settle delay.  A loop goes on to click in no other way.
C5_FiringRule ==
    [][ /\ \A f \in Frames : \A r2 \in After :
             (Ticked(r2) /\ env' = Captured(f) /\ ~waitingForMatch
                 /\ FrameTable[f].match /\ FrameTable[f].btn) =>
                IF FrameTable[f].score > FiringThreshold
                THEN r2 = Loop("click", [X |-> FrameTable[f].X, Y |-> FrameTable[f].Y])
                ELSE r2 = At("head") /\ UNCHANGED flags
        /\ \A r \in Live : \A r2 \in After :
             (Stepped(r, r2) /\ r2.pc = "click") =>
                /\ Ticked(r2) /\ ~waitingForMatch
                /\ \E f \in Frames : /\ env' = Captured(f)
                                     /\ FrameTable[f].btn
                                     /\ FrameTable[f].score > FiringThreshold
        /\ \A r \in Live : \A r2 \in After :
             (Stepped(r, r2) /\ r.pc = "click") => r2 = Loop("clicking", r.buttonPos)
      ]_vars

\* a candidate scoring exactly the threshold was seen and not clicked
C5_BoundaryNotClicked ==
    \E f \in Frames :
        /\ FrameTable[f].btn /\ FrameTable[f].score = FiringThreshold
        /\ env = Captured(f)
        /\ logged = "score_low"
        /\ MonitorState = "AwaitingAcceptButton"
        /\ loops = SetToBag({At("head")})

\* C6: an AwaitingAcceptButton tick whose frame does not show the matching
\* screen sends the loop into StopMonitoring with no button search and no
\* click; there the loop writes running = FALSE (unless it already is), then
\* waitingForMatch = FALSE, then broadcasts "stopped" and returns.
C6_ScreenGoneStops ==
    [][ /\ \A f \in Frames : \A r2 \in After :
             (Ticked(r2) /\ env' = Captured(f) /\ ~waitingForMatch /\ ~FrameTable[f].match) =>
                r2 = At("stop_check") /\ logged' = "screen_gone"
        /\ \A r \in Live : \A r2 \in After :
             (Stepped(r, r2) /\ r.pc \in StopPositions) =>
                CASE r.pc = "stop_check"   -> r2 = At("stop_setrun") /\ running /\ UNCHANGED flags
                  [] r.pc = "stop_setrun"  -> r2 = At("stop_setwait") /\ MonitorState' = "Idle"
                  [] r.pc = "stop_setwait" -> r2 = At("stop_status") /\ ~waitingForMatch'
                  [] OTHER                 -> FALSE
        /\ \A r \in Live :
             (Exited(r) /\ r.pc \in StopPositions) =>
                \/ r.pc = "stop_check" /\ ~running
                \/ r.pc = "stop_status" /\ status' = "stopped"
      ]_vars

\* a tick in AwaitingAcceptButton has just seen the matching screen gone
C6_ScreenGoneSeen ==
    \E f \in Frames :
        /\ ~FrameTable[f].match
        /\ env = Captured(f)
        /\ logged = "screen_gone"
        /\ MonitorState = "AwaitingAcceptButton"
        /\ loops = SetToBag({At("stop_check")})

\* C7: a click that succeeds is followed by the settle delay and a new capture;
\* if the new frame does not show the matching screen the loop goes into
\* StopMonitoring, if it does the loop goes back to its loop condition with the
\* flags unchanged.
C7_RecheckAfterClick ==
    [][ /\ \A r \in Live : \A r2 \in After :
             (Stepped(r, r2) /\ r.pc = "clicking" /\ env' = Clicked(TRUE)) =>
                r2 = At("settle") /\ UNCHANGED flags
        /\ \A r \in Live : \A r2 \in After :
             (Stepped(r, r2) /\ r.pc = "settle") => Rechecked(r2)
        /\ \A f \in Frames : \A r2 \in After :
             (Rechecked(r2) /\ env' = Recaptured(f)) =>
                IF FrameTable[f].match
                THEN r2 = At("head") /\ UNCHANGED flags
                ELSE r2 = At("stop_check") /\ logged' = "screen_gone"
      ]_vars

\* the re-check after a click has just found the matching screen still there
C7_StillPresent ==
    \E f \in Frames :
        /\ FrameTable[f].match
        /\ env = Recaptured(f)
        /\ logged = "still_present"
        /\ MonitorState = "AwaitingAcceptButton"
        /\ loops = SetToBag({At("head")})

\* C8: in an AwaitingMatchScreen tick a frame showing the matching screen makes
\* the loop write waitingForMatch = FALSE and then broadcast the status
\* "watching for accept button", after which the tick is over; any other frame
\* ends the tick with the flags unchanged.  Neither path searches the button.
C8_MatchDetected ==
    [][ /\ \A f \in Frames : \A r2 \in After :
             (Ticked(r2) /\ env' = Captured(f) /\ waitingForMatch) =>
                /\ UNCHANGED flags
                /\ status' = "none"
                /\ IF FrameTable[f].match
                   THEN r2 = At("set_nowait") /\ logged' = "match_detected"
                   ELSE r2 = At("head")
        /\ \A r \in Live : \A r2 \in After :
             (Stepped(r, r2) /\ r.pc = "set_nowait") =>
                r2 = At("status_btn") /\ ~waitingForMatch' /\ running' = running
        /\ \A r \in Live : \A r2 \in After :
             (Stepped(r, r2) /\ r.pc = "status_btn") =>
                r2 = At("head") /\ status' = "watching" /\ UNCHANGED flags
      ]_vars

\* the loop has just announced that it watches for the accept button
C8_WatchingForButton ==
    /\ status = "watching"
    /\ MonitorState = "AwaitingAcceptButton"
    /\ loops = SetToBag({At("head")})

\* C9: a StartMonitoring whose template load fails leaves running,
\* waitingForMatch and autoWatching unchanged, spawns no poll loop, broadcasts
\* no status and logs the error.
C9_LoadFailure ==
    [][ (/\ env' \in {Loaded("accept_fail"), Loaded("matching_fail")}
         /\ ~(watcher = "aw_init" /\ watcher' # "aw_init")) =>
            /\ UNCHANGED <<flags, autoWatching, loops, calls>>
            /\ status' = "none"
            /\ logged' = "template_error"
      ]_vars

\* a StartMonitoring has just returned on a template load error
C9_StartRefused ==
    /\ env \in {Loaded("accept_fail"), Loaded("matching_fail")}
    /\ logged = "template_error"
    /\ MonitorState = "Idle"
    /\ loops = EmptyBag
    /\ calls = EmptyBag

\* C10: a failed capture at the start of a tick ends the tick with no
\* detection, click, broadcast or flag change; a failed capture after the
\* settle delay sends the loop back to its loop condition, not into
\* StopMonitoring, with the flags unchanged.
C10_CaptureFailure ==
    [][ /\ \A r2 \in After :
             (Ticked(r2) /\ env' = CaptureFailed) =>
                r2 = At("head") /\ UNCHANGED flags /\ status' = "none" /\ logged' = "none"
        /\ \A r2 \in After :
             (Rechecked(r2) /\ env' = RecaptureFailed) =>
                r2 = At("head") /\ UNCHANGED flags /\ status' = "none"
      ]_vars

\* the capture after the settle delay has just failed
C10_RecaptureFailed ==
    /\ env = RecaptureFailed
    /\ MonitorState = "AwaitingAcceptButton"
    /\ loops = SetToBag({At("head")})

\* C11: when ClickAcceptButton reports failure the loop logs it and goes back
\* to its loop condition: no settle delay, no re-capture, no StopMonitoring, no
\* status broadcast, and the flags are left as they are.
C11_ClickFailure ==
    [][ \A r \in Live :
          (r.pc = "clicking" /\ env' = Clicked(FALSE)) =>
             /\ Stepped(r, At("head"))
             /\ UNCHANGED flags
             /\ status' = "none"
             /\ logged' = "click_failed"
      ]_vars

\* a click has just failed in AwaitingAcceptButton and the loop is back at its
\* loop condition
C11_ClickFailed ==
    /\ env = Clicked(FALSE)
    /\ logged = "click_failed"
    /\ MonitorState = "AwaitingAcceptButton"
    /\ loops = SetToBag({At("head")})

\* C12: a poll loop returns only at its loop condition with running = FALSE,
\* or from the StopMonitoring it calls itself; it calls StopMonitoring only on
\* a frame that does not show the matching screen (the tick's frame with
\* waitingForMatch = FALSE, or the frame captured after a click).  A failed
\* capture, a failed click, a low score or a missing candidate never leads
\* there, and a loop that finds running = TRUE at its condition goes on.
C12_LoopTermination ==
    [][ /\ \A r \in Live :
             Exited(r) =>
                \/ r.pc = "head" /\ ~running
                \/ r.pc = "stop_check" /\ ~running
                \/ r.pc = "stop_status"
        /\ \A r \in Live : \A r2 \in After :
             (Stepped(r, r2) /\ r2.pc = "stop_check") =>
                \E f \in Frames :
                   /\ ~FrameTable[f].match
                   /\ \/ r.pc = "tick" /\ env' = Captured(f) /\ ~waitingForMatch
                      \/ r.pc = "settle" /\ env' = Recaptured(f)
        /\ \A r \in Live : \A r2 \in After :
             (Stepped(r, r2) /\ r.pc \in {"tick", "clicking", "settle"}
                 /\ r2.pc \notin {"stop_check", "set_nowait", "click", "settle"}) =>
                r2 = At("head")
        /\ \A r \in Live : (r.pc = "head" /\ running) => ~Exited(r)
      ]_vars

\* a capture has just failed in AwaitingAcceptButton and the loop is still alive
C12_AliveAfterFailure ==
    /\ env = CaptureFailed
    /\ MonitorState = "AwaitingAcceptButton"
    /\ loops = SetToBag({At("head")})

\* C13: the auto-watcher captures a frame and runs the matching-screen
\* detection only while running = FALSE.
C13_WatcherOnlyWhenIdle ==
    [][(watcher = "aw_capture" /\ env'.op = "watch") => ~running]_vars

\* C14: the auto-watcher captures only in a tick in which it read
\* running = FALSE, and always does so then; it calls StartMonitoring exactly
\* when the frame it captured shows the matching screen, and that call goes
\* through StartMonitoring's own checks; autoWatching is written by
\* StartAutoWatcher alone, and the auto-watcher's loop runs while it is TRUE
\* and ends only on reading it FALSE.
C14_WatcherTrigger ==
    [][ /\ (watcher' = "aw_capture" /\ watcher # "aw_capture") =>
               watcher = "aw_tick" /\ ~running /\ autoWatching
        /\ (watcher = "aw_tick" /\ watcher' # "aw_tick") =>
               watcher' = (IF running THEN "aw_head" ELSE "aw_capture")
        /\ (watcher' = "aw_start" /\ watcher # "aw_start") =>
               /\ watcher = "aw_capture"
               /\ \E f \in Frames : FrameTable[f].match /\ env' = Watched(f)
        /\ (watcher = "aw_capture" /\ watcher' # "aw_capture") =>
               /\ env'.op = "watch"
               /\ watcher' = (IF env'.res # NoFrame /\ FrameTable[env'.res].match
                               THEN "aw_start" ELSE "aw_head")
               /\ UNCHANGED <<flags, calls, loops>>
        /\ (watcher = "aw_start" /\ watcher' # "aw_start") =>
               IF running THEN watcher' = "aw_head" /\ UNCHANGED calls
               ELSE IF env' = Loaded("ok")
               THEN /\ watcher' = "aw_call"
                    /\ calls' = calls (+) SetToBag({Call("aw", "start_setrun", FALSE)})
               ELSE watcher' = "aw_head" /\ UNCHANGED calls
        /\ autoWatching' # autoWatching => watcher = "aw_init"
        /\ (watcher = "aw_head" /\ watcher' # "aw_head") =>
               watcher' = (IF autoWatching THEN "aw_tick" ELSE "aw_off")
        /\ (watcher' = "aw_off" /\ watcher # "aw_off") =>
               \/ watcher = "aw_init"
               \/ watcher = "aw_head" /\ ~autoWatching
      ]_vars

\* after an explicit StopMonitoring has returned the auto-watcher, having seen
\* the matching screen, is inside its StartMonitoring call
C14_TriggeredAfterStop ==
    /\ autoWatching
    /\ stopReturned
    /\ watcher = "aw_call"
    /\ Call("aw", "start_setrun", FALSE) \in Pending

\* C15: a poll loop that reads running = FALSE at its loop condition returns
\* and starts no tick; a loop in its settle delay is not interrupted, it goes
\* on to the re-capture whatever running is; and if running stays FALSE from
\* some point on, every poll loop has returned from some point on.
C15_CooperativeStop ==
    /\ [][
          /\ \A r \in Live : \A r2 \in After :
               (Stepped(r, r2) /\ r.pc = "head") => (running /\ r2 = At("tick"))
          /\ \A r \in Live : (Exited(r) /\ r.pc = "head") => ~running
          /\ \A r \in Live : r.pc = "settle" => ~Exited(r)
          /\ \A r \in Live : \A r2 \in After :
               (Stepped(r, r2) /\ r.pc = "settle") => Rechecked(r2)
       ]_vars
    /\ (<>[](~running)) => <>[](loops = EmptyBag)

\* StopMonitoring has run to its end while a poll loop is in its settle delay
C15_StoppedDuringSettle ==
    /\ ~running
    /\ status = "stopped"
    /\ calls = EmptyBag
    /\ loops = SetToBag({At("settle")})

\* C16: whenever running is TRUE both templates are loaded, also after a
\* LoadTemplates of StartMonitoring, StartAutoWatcher or TestEnvironment that
\* failed during the session.
C16_TemplatesWhileRunning == running => (acceptTemplate /\ matchingTemplate)

\* TestEnvironment's LoadTemplates failed on the accept button file while the
\* monitor was waiting for the button
C16_ReloadFailedWhileRunning ==
    /\ running
    /\ ~waitingForMatch
    /\ env = Tested("accept_fail")
    /\ loops # EmptyBag

\* C17: a StartMonitoring goes past its checks only from Idle with the
\* templates loaded; it then sets running, sets waitingForMatch whatever its
\* value was, which makes the state AwaitingMatchScreen while running is as
\* it set it, and last broadcasts 'awaiting match' and spawns the poll loop
\* at its loop condition, the flags untouched.
C17_StartBeginsAwaitingMatch ==
    [][\A by \in {"ctl", "aw"} :
         /\ calls' = calls (+) SetToBag({Call(by, "start_setrun", FALSE)})
               => ~running /\ env' = Loaded("ok") /\ UNCHANGED flags
         /\ LET c == Call(by, "start_setrun", FALSE)
            IN  (c \in Pending /\ Step(c, "start_setwait"))
                  => running' /\ UNCHANGED waitingForMatch
         /\ LET c == Call(by, "start_setwait", FALSE)
            IN  (c \in Pending /\ Step(c, "start_announce"))
                  => /\ waitingForMatch'
                     /\ UNCHANGED running
                     /\ running => MonitorState' = "AwaitingMatchScreen"
         /\ LET c == Call(by, "start_announce", FALSE)
            IN  (c \in Pending /\ calls' = calls (-) SetToBag({c}))
                  => /\ status' = "awaiting_match"
                     /\ UNCHANGED flags
                     /\ loops' = loops (+) SetToBag({At("head")})
      ]_vars

\* a StartMonitoring has set both flags while the poll loop of the previous
\* session, stopped waiting for the button, is still in its settle delay
C17_RestartedAfterButtonWait ==
    /\ MonitorState = "AwaitingMatchScreen"
    /\ calls = SetToBag({Call("ctl", "start_announce", FALSE)})
    /\ loops = SetToBag({At("settle")})

\* C18: every change of the monitor state that a step makes is Idle to
\* AwaitingMatchScreen, AwaitingMatchScreen to AwaitingAcceptButton,
\* AwaitingAcceptButton to AwaitingMatchScreen, or either of the two to Idle;
\* in particular no step takes Idle to AwaitingAcceptButton.
C18_StateChanges ==
    [][MonitorState' # MonitorState =>
         <<MonitorState, MonitorState'>> \in
            { <<"Idle", "AwaitingMatchScreen">>,
              <<"AwaitingMatchScreen", "AwaitingAcceptButton">>,
              <<"AwaitingAcceptButton", "AwaitingMatchScreen">>,
              <<"AwaitingAcceptButton", "Idle">>,
              <<"AwaitingMatchScreen", "Idle">> }
      ]_vars

\* C19: the detector's fields are not shared without a lock.  LoadTemplates
\* and CaptureScreen take no lock, so two steps of different tasks that can
\* both be taken next can run at the same time: the claim is that a handler's
\* TestEnvironment, which writes the templates, lastScreenshot and
\* screenBounds, can never be taken while a poll loop can take its tick, which
\* writes lastScreenshot and screenBounds and reads the templates.
C19_DetectorNotShared ==
    ~ /\ ENABLED TestEnvironment
      /\ \E r \in Live : ENABLED LoopTick(r)

C21_DiagnosticsNoControl ==
    [][env'.op = "test" =>
         /\ UNCHANGED <<flags, autoWatching, calls, loops, watcher, events>>
         /\ ~ClickIssued
         /\ status' = "none"
         /\ logged' \in {"test_done", "test_aborted"}
         /\ logged' = "test_aborted" => ~acceptTemplate'
      ]_vars

\* TestEnvironment has run while the session was waiting for the button
C21_TestedDuringSession ==
    /\ env = Tested("ok")
    /\ logged = "test_done"
    /\ MonitorState = "AwaitingAcceptButton"
    /\ loops = SetToBag({At("head")})

\* C22: when FastDetectAcceptButton returns, the colour method has run
\* exactly if no scan of the template method gave a position with a score
\* above 0, the edge method exactly if moreover the colour method found
\* nothing, the result is none exactly if all three found nothing, and if the
\* template method found a position the result is the first of its positions
\* with the highest score, whatever the two heuristics would return.
C22_MethodsInOrder ==
    detect.pc = "return" =>
        LET scans == detect.scans
            hits  == {i \in 1..Len(scans) : scans[i].pos # Nil /\ scans[i].score > 0}
            top   == {i \in hits : \A j \in hits : scans[j].score <= scans[i].score}
            first == CHOOSE i \in top : \A j \in top : i <= j
        IN  /\ "color" \in detect.tried <=> hits = {}
            /\ "edge" \in detect.tried <=> (hits = {} /\ detect.color = Nil)
            /\ detect.bestMatch = Nil <=>
                   (hits = {} /\ detect.color = Nil /\ detect.edge = Nil)
            /\ hits # {} => detect.bestMatch = scans[first].pos

\* the call returned the template method's position while the colour method
\* and the edge method would each have found one
C22_TemplateKept ==
    /\ detect.pc = "return"
    /\ detect.bestMatch \in {Pt(1), Pt(2)}
    /\ detect.color # Nil
    /\ detect.edge # Nil
    /\ detect.tried = {"template"}

\* C23: when templateMatchFast returns, its result is none exactly if no
\* window of the clipped search area scores strictly above the threshold;
\* otherwise it is the origin plus half the scaled template size of the
\* window with the highest score, the first in row-major order among those
\* that score the same.
C23_BestWindow ==
    detect.pc = "return" =>
        LET sc    == detect.scores
            above == {w \in DOMAIN sc : sc[w] > detect.threshold}
            top   == {w \in above : \A v \in above : sc[v] <= sc[w]}
            first == CHOOSE w \in top :
                        \A v \in top : w[2] < v[2] \/ (w[2] = v[2] /\ w[1] <= v[1])
        IN  /\ detect.bestMatch = Nil <=> above = {}
            /\ above # {} =>
                  detect.bestMatch = [X |-> first[1] + detect.needleWidth \div 2,
                                      Y |-> first[2] + detect.needleHeight \div 2]

\* the call returned the first of two windows with the highest score, in a
\* search area that was clipped to the frame
C23_TieFirstWins ==
    /\ detect.pc = "return"
    /\ detect.scores = [w \in DOMAIN detect.scores |->
                           IF w \in {<<2, 0>>, <<0, 2>>} THEN 900 ELSE 600]
    /\ detect.searchArea = detect.haystack
    /\ detect.bestMatch = [X |-> 3, Y |-> 1]

\* C24: the score VerifyAcceptButton returns is never negative, and for a
\* loaded template whose footprint around the candidate, at the given scale,
\* has a pixel outside the frame it is 0.3, which passes the poll loop's
\* firing test: the candidate is clicked.
C24_OutOfBoundsClicked ==
    detect.pc = "return" =>
        LET w       == (2 * detect.scale) \div 1000
            left    == detect.pos.X - w \div 2
            top     == detect.pos.Y - w \div 2
            outside == \/ left < 0
                       \/ top < 0
                       \/ left + w > detect.img.MaxX
                       \/ top + w > detect.img.MaxY
        IN  /\ detect.verifyScore >= 0
            /\ (detect.acceptTemplate /\ outside) =>
                   (detect.verifyScore = 300 /\ detect.click)
            /\ detect.click <=> detect.verifyScore > FiringThreshold

\* a candidate at the frame's corner, with no pixel of the frame like the
\* template, has been verified and passed the firing test
C24_CornerCandidateFires ==
    /\ detect.pc = "return"
    /\ detect.acceptTemplate
    /\ detect.pos = [X |-> 0, Y |-> 0]
    /\ detect.ratio = 0
    /\ detect.bonus = 0
    /\ detect.click

\* C25: a StartMonitoring that finds running = TRUE returns at once: the
\* flags, the templates, the calls in progress and the poll loops are as
\* before and nothing is broadcast; and no StartMonitoring that reads
\* running = TRUE goes past that check to load the templates, log a load
\* error or set the flags.
C25_StartWhileRunning ==
    [][ /\ env' = AlreadyRunning =>
              /\ running
              /\ UNCHANGED <<flags, autoWatching, templates, calls, loops>>
              /\ status' = "none"
              /\ logged' = "none"
        /\ running =>
              /\ env'.op # "load"
              /\ logged' # "template_error"
              /\ \A by \in {"ctl", "aw"} :
                    calls' # calls (+) SetToBag({Call(by, "start_setrun", FALSE)})
      ]_vars

\* StartMonitoring has been called and has returned while the session was
\* waiting for the button
C25_RefusedWhileWatching ==
    /\ env = AlreadyRunning
    /\ MonitorState = "AwaitingAcceptButton"
    /\ calls = EmptyBag
    /\ loops = SetToBag({At("head")})

C27_ClickProvenance ==
    [][\A r \in Live : \A r2 \in After :
         Stepped(r, r2) =>
            /\ r2.pc = "tick" => (r.pc = "head" /\ running)
            /\ r2.pc = "click" =>
                  /\ r.pc = "tick"
                  /\ ~waitingForMatch
                  /\ env'.op = "capture"
                  /\ env'.res \in Frames
                  /\ FrameTable[env'.res].match
                  /\ FrameTable[env'.res].btn
                  /\ r2.buttonPos = [X |-> FrameTable[env'.res].X,
                                      Y |-> FrameTable[env'.res].Y]
            /\ r2.pc = "clicking" => (r.pc = "click" /\ r2.buttonPos = r.buttonPos)
      ]_vars

\* the poll loop has entered ClickAcceptButton with the position of the
\* button on the frame of its tick
C27_ClickingAtCandidate ==
    /\ loops = SetToBag({Loop("clicking", [X |-> FrameTable[3].X, Y |-> FrameTable[3].Y])})
    /\ running
    /\ ~waitingForMatch
    /\ calls = EmptyBag
    /\ env = NoAnswer

\* C28: the status last sent names the monitor state whenever nothing is in
\* progress; in particular right after a broadcast: a step that sends a
\* status and leaves no StartMonitoring or StopMonitoring call in progress
\* and every poll loop waiting for its next tick, leaves the monitor in the
\* state that status names.
C28_StatusMatchesState ==
    [][(/\ status' # "none"
        /\ calls' = EmptyBag
        /\ \A r \in After : r.pc = "head")
         => MonitorState' = (CASE status' = "awaiting_match" -> "AwaitingMatchScreen"
                               [] status' = "watching"       -> "AwaitingAcceptButton"
                               [] OTHER                      -> "Idle")
      ]_vars

\* C29: whenever no StartMonitoring and no StopMonitoring call is in
\* progress, neither a handler's, the auto-watcher's nor a poll loop's,
\* running = FALSE implies waitingForMatch = FALSE.
C29_FlagsAtRest ==
    (/\ calls = EmptyBag
     /\ \A r \in Live : r.pc \notin StopPositions)
      => (~running => ~waitingForMatch)

\* C30: the client set changes only while at most the task that changes it
\* holds clientsMutex: an insertion or a removal under Lock() with nobody in
\* BroadcastMessage, and the removal of a failed client inside
\* BroadcastMessage with no other BroadcastMessage in progress.
C30_ClientSetExclusive ==
    [][manager'.clients # manager.clients =>
         \A t \in Readers : \A u \in Readers : t = u
      ]_vars

====
